---- MODULE Spec2Model ----
(***************************************************************************)
(* go-muxrpc: the session multiplexer (rpc.go) and the packet transport    *)
(* adapter (packer.go) as a state machine.                                 *)
(*                                                                         *)
(* Two peers, 1 and 2, each run one session over their end of one duplex   *)
(* connection.  Under Spec only peer 1 runs and the bytes it reads are     *)
(* chosen by the environment (an arbitrary remote); under SpecPair both    *)
(* peers run the same code and read what the other one wrote.              *)
(***************************************************************************)
EXTENDS Integers, Sequences, FiniteSets, TLC

\* ------------------------------------------------------------------ bounds
\* callers of Async per peer, each issuing one call
MaxCallers == 2
\* packets a session reads from an arbitrary remote
MaxPkts == 2

\* ------------------------------------------------------- program constants
bufSize == 5
MaxInt32 == 2147483647

Peers == {1, 2}
Other(p) == 3 - p
Local == Other(2)
Callers == 1..MaxCallers
\* the tasks that may call Terminate
Terminators == {1, 2}

\* ------------------------------------------------------------ int32 values
\* ids are int32: arithmetic on them is modulo 2^32
MinInt32 == (0 - MaxInt32) - 1

\* pkt.Req = r.highest + 1
NextId(h) == IF h = MaxInt32 THEN MinInt32 ELSE h + 1

\* (a receive path that leaves the id as it was on the wire)
FlipNot(n) == n
\* pkt.Req = -pkt.Req
Flip(n) == IF n = MinInt32 THEN MinInt32 ELSE 0 - n

\* ------------------------------------------------------------------ bodies
\* A body is the JSON document that the bytes hold:
\*   json : "true" | "object" | "string" | "invalid"
\*   name : the "name" member: "Error", another string, "list" (an array of
\*          strings) or "none" (no such member)
\*   type : the "type" member, or "none"
Body(j, n, t) == [json |-> j, name |-> n, type |-> t]
BodyTrue == Body("true", "none", "none")
BodyError == Body("object", "Error", "none")
BodyOtherError == Body("object", "TypeError", "none")
BodyValue == Body("string", "none", "none")
BodyJunk == Body("invalid", "none", "none")
Envelope(t) == Body("object", "list", t)

CallTypes == {"async", "source", "sink", "duplex"}

\* isTrue: the four bytes t, r, u, e
isTrue(data) == data.json = "true"

\* (an error parser that accepts an object of any name)
parseErrorAnyName(data) ==
  IF data.json # "object" \/ data.name = "list" THEN "unmarshal" ELSE "ok"
\* parseError: json.Unmarshal into CallError{Name string}, then Name = "Error"
parseError(data) ==
  IF data.json # "object" \/ data.name = "list" THEN "unmarshal"
  ELSE IF data.name # "Error" THEN "name"
  ELSE "ok"

\* json.Unmarshal(pkt.Body, &req) with Request{Type string, Method []string}
UnmarshalRequest(data) ==
  data.json = "object" /\ data.name \in {"list", "none"}

\* ----------------------------------------------------------------- packets
Packet(f, r, b) == [flag |-> f, req |-> r, body |-> b]
NoPkt == Packet({}, 0, BodyJunk)

\* req.Type.Flags()
TypeFlags(t) == IF t = "async" THEN {} ELSE {"Stream"}

\* newEndOkayPacket(req)
newEndOkayPacket(r) == Packet({"JSON", "EndErr"}, r, BodyTrue)

\* (a ParseRequest without the check of the JSON flag)
ParseRequestAnyFlag(pkt) ==
  IF pkt.req >= 0 THEN "expected negative request id"
  ELSE IF ~UnmarshalRequest(pkt.body) THEN "error decoding packet"
  ELSE IF "Stream" \in pkt.flag /\ pkt.body.type \notin {"duplex", "source", "sink"}
    THEN "unhandled request type"
  ELSE "ok"
\* ParseRequest: "ok", or the rejection
ParseRequest(pkt) ==
  IF "JSON" \notin pkt.flag THEN "expected JSON flag"
  ELSE IF pkt.req >= 0 THEN "expected negative request id"
  ELSE IF ~UnmarshalRequest(pkt.body) THEN "error decoding packet"
  ELSE IF "Stream" \in pkt.flag /\ pkt.body.type \notin {"duplex", "source", "sink"}
    THEN "unhandled request type"
  ELSE "ok"

\* What an arbitrary remote puts on the wire: the shapes of a packet ...
EnvShapes ==
  { [flag |-> {"JSON"}, body |-> BodyValue],
    [flag |-> {"JSON"}, body |-> Envelope("async")],
    [flag |-> {}, body |-> Envelope("async")],
    [flag |-> {"JSON", "EndErr"}, body |-> BodyTrue],
    [flag |-> {"JSON", "EndErr"}, body |-> BodyError],
    [flag |-> {"JSON", "EndErr"}, body |-> BodyOtherError],
    [flag |-> {"JSON", "EndErr"}, body |-> Envelope("async")] }

\* ... and the ids it tags them with: the negation of a call number of ours,
\* or a call number of its own
RemoteCalls == {1}
WireIds == {0 - c : c \in Callers} \cup RemoteCalls

EnvPackets == {Packet(s.flag, i, s.body) : s \in EnvShapes, i \in WireIds}

\* ------------------------------------------------------------------- state
VARIABLES
  highest,     \* rpc.highest, per peer
  reqs,        \* rpc.reqs: id -> request
  rLock,       \* rpc.rLock: NoTask or the task holding it
  terminated,  \* rpc.terminated
  tLock,       \* rpc.tLock: NoTask or the task holding it
  closing,     \* packer.closing is closed
  conn,        \* the peer's end of the connection: "open" | "closed"
  wire,        \* packets written towards the peer and not yet read by it
  pipe,        \* request -> its inbound pipe and Stream
  pcC,         \* position of each Async caller
  cid,         \* the id Do gave to each caller's request (0: none yet)
  got,         \* what each Async caller was handed
  pcS,         \* position of the Serve loop
  rd,          \* result of the last pkr.Next: "none" | "pkt" | "eos" | "err"
  cur,         \* the packet Serve is handling
  curReq,      \* the request Serve looked up for it
  serveErr,    \* what Serve returned: Running, Nil or an error
  nread,       \* packets read from the transport so far
  pcH,         \* request -> position of its HandleCall task
  calls,       \* HandleCall invocations, in order: <<id, request>>
  pcT,         \* position of each Terminate caller
  fault        \* the process died (runtime fault)

vars == <<highest, reqs, rLock, terminated, tLock, closing, conn, wire, pipe,
          pcC, cid, got, pcS, rd, cur, curReq, serveErr, nread, pcH, calls,
          pcT, fault>>

\* Requests are named by who made them: <<"call", c>> is the Request that
\* Async caller c built, <<"in", k>> the one ParseRequest built from the
\* k-th packet read.
CallReq(c) == <<"call", c>>
InReq(k) == <<"in", k>>
NoReq == <<"none", 0>>
\* no task holds the mutex
NoTask == <<"none", 0>>

\* luigi.NewPipe(luigi.WithBuffer(bufSize)) and NewStream(inSrc, pkr, req, ..):
\* buf holds the packets poured and not yet taken, each by its id and its
\* position in the read order; st is "open", "eos" (Close) or "err"
\* (CloseWithError); sreq is the id bound to the Stream; sclosed its Close.
NewPipe(r) == [buf |-> <<>>, st |-> "open", sreq |-> r, sclosed |-> FALSE]
Item(pkt, k) == [req |-> pkt.req, seq |-> k]
NoItem == [kind |-> "none", req |-> 0, seq |-> 0]

\* what Serve returned: nothing yet, nil, or an error and its cause
Err(m, c) == [msg |-> m, cause |-> c]
Running == Err("none", "")
Nil == Err("nil", "")

Remove(f, k) == [x \in DOMAIN f \ {k} |-> f[x]]

Init ==
  /\ highest = [p \in Peers |-> 0]
  /\ reqs = [p \in Peers |-> <<>>]
  /\ rLock = [p \in Peers |-> NoTask]
  /\ terminated = [p \in Peers |-> FALSE]
  /\ tLock = [p \in Peers |-> NoTask]
  /\ closing = [p \in Peers |-> FALSE]
  /\ conn = [p \in Peers |-> "open"]
  /\ wire = [p \in Peers |-> <<>>]
  /\ pipe = [p \in Peers |-> <<>>]
  /\ pcC = [p \in Peers |-> [c \in Callers |-> "idle"]]
  /\ cid = [p \in Peers |-> [c \in Callers |-> 0]]
  /\ got = [p \in Peers |-> [c \in Callers |-> NoItem]]
  /\ pcS = [p \in Peers |-> "read"]
  /\ rd = [p \in Peers |-> "none"]
  /\ cur = [p \in Peers |-> NoPkt]
  /\ curReq = [p \in Peers |-> NoReq]
  /\ serveErr = [p \in Peers |-> Running]
  /\ nread = [p \in Peers |-> 0]
  /\ pcH = [p \in Peers |-> <<>>]
  /\ calls = [p \in Peers |-> <<>>]
  /\ pcT = [p \in Peers |-> [t \in Terminators |-> "idle"]]
  /\ fault = [p \in Peers |-> FALSE]

Alive(p) == ~fault[p]

\* ------------------------------------------------------- packet transport
\* pkr.w.WritePacket: the packet reaches the wire unless the write fails; a
\* write on a closed connection fails
WriteOutcomes(p) == IF conn[p] = "closed" THEN {FALSE} ELSE {TRUE, FALSE}
Written(p, pkt, ok) ==
  IF ok THEN [wire EXCEPT ![Other(p)] = Append(@, pkt)] ELSE wire

\* (a Pour that reports a failed write whether or not a close was requested)
PourResultStrict(p, ok) == IF ok THEN "nil" ELSE "write error"
\* packer.Pour: what it returns for a write that succeeded (ok) or not
PourResult(p, ok) ==
  IF closing[p] THEN "nil" ELSE IF ok THEN "nil" ELSE "write error"

\* (a Next that does not look at the closing flag)
NextResultNoClosing(p, read) ==
  IF read = "eof" THEN "eos" ELSE IF read = "err" THEN "err" ELSE "pkt"
\* packer.Next: what it returns for a read that gave a packet ("pkt"),
\* physical end-of-file ("eof") or another read error ("err")
NextResult(p, read) ==
  IF closing[p] /\ read # "pkt" THEN "eos"
  ELSE IF read = "eof" THEN "eos"
  ELSE IF read = "err" THEN "err"
  ELSE "pkt"

\* ------------------------------------------------------------ rpc.Async/Do
\* Async builds the pipe and the Request; Do enters its locked section
AsyncCall(p, c) ==
  /\ Alive(p)
  /\ pcC[p][c] = "idle"
  /\ rLock[p] = NoTask
  /\ rLock' = [rLock EXCEPT ![p] = CallReq(c)]
  /\ pipe' = [pipe EXCEPT ![p] = (CallReq(c) :> NewPipe(0)) @@ @]
  /\ pcC' = [pcC EXCEPT ![p][c] = "locked"]
  /\ UNCHANGED <<highest, reqs, terminated, tLock, closing, conn, wire, cid,
                 got, pcS, rd, cur, curReq, serveErr, nread, pcH, calls, pcT,
                 fault>>

\* (an allocation that numbers a call by the size of the table)
DoIdBySize(p) == Cardinality(DOMAIN reqs[p]) + 1
\* (a Do that does not put the request into the table)
DoInsertNone(p, r) == reqs[p]
\* the id Do allocates and the table after the insertion
DoId(p) == NextId(highest[p])
DoInsert(p, r) == (DoId(p) :> r) @@ reqs[p]

\* Do's locked section: marshal, allocate, insert, bind the id to the Stream;
\* then unlock.  enc: json.Marshal(req) succeeded
DoRegister(p, c, enc) ==
  /\ Alive(p)
  /\ pcC[p][c] = "locked"
  /\ rLock[p] = CallReq(c)
  /\ highest' = [highest EXCEPT ![p] = DoId(p)]
  /\ reqs' = [reqs EXCEPT ![p] = DoInsert(p, CallReq(c))]
  /\ pipe' = [pipe EXCEPT ![p][CallReq(c)].sreq = DoId(p)]
  /\ cid' = [cid EXCEPT ![p][c] = DoId(p)]
  /\ rLock' = [rLock EXCEPT ![p] = NoTask]
  /\ pcC' = [pcC EXCEPT ![p][c] = IF enc THEN "pour" ELSE "failed"]
  /\ got' = [got EXCEPT ![p][c] =
               IF enc THEN @ ELSE [kind |-> "senderr", req |-> 0, seq |-> 0]]
  /\ UNCHANGED <<terminated, tLock, closing, conn, wire, pcS, rd, cur, curReq,
                 serveErr, nread, pcH, calls, pcT, fault>>

\* the packet Do sends for an async call
CallPacket(r) == Packet({"JSON"} \cup TypeFlags("async"), r, Envelope("async"))

\* (a Do that takes the request out of the table when the send fails)
DoPourRollback(p, c, ok) ==
  /\ Alive(p)
  /\ pcC[p][c] = "pour"
  /\ ok \in WriteOutcomes(p)
  /\ wire' = Written(p, CallPacket(cid[p][c]), ok)
  /\ pcC' = [pcC EXCEPT ![p][c] =
               IF PourResult(p, ok) = "nil" THEN "wait" ELSE "failed"]
  /\ got' = [got EXCEPT ![p][c] =
               IF PourResult(p, ok) = "nil" THEN @
               ELSE [kind |-> "senderr", req |-> 0, seq |-> 0]]
  /\ reqs' = [reqs EXCEPT ![p] =
                IF PourResult(p, ok) = "nil" THEN @ ELSE Remove(@, cid[p][c])]
  /\ UNCHANGED <<highest, rLock, terminated, tLock, closing, conn, pipe,
                 cid, pcS, rd, cur, curReq, serveErr, nread, pcH, calls, pcT,
                 fault>>
\* return r.pkr.Pour(ctx, &pkt); Async goes on to Stream.Next on success
DoPour(p, c, ok) ==
  /\ Alive(p)
  /\ pcC[p][c] = "pour"
  /\ ok \in WriteOutcomes(p)
  /\ wire' = Written(p, CallPacket(cid[p][c]), ok)
  /\ pcC' = [pcC EXCEPT ![p][c] =
               IF PourResult(p, ok) = "nil" THEN "wait" ELSE "failed"]
  /\ got' = [got EXCEPT ![p][c] =
               IF PourResult(p, ok) = "nil" THEN @
               ELSE [kind |-> "senderr", req |-> 0, seq |-> 0]]
  /\ UNCHANGED <<highest, reqs, rLock, terminated, tLock, closing, conn, pipe,
                 cid, pcS, rd, cur, curReq, serveErr, nread, pcH, calls, pcT,
                 fault>>

\* Stream.Next on a pipe: the oldest packet, or the pipe's terminal value
\* once it is closed and drained
CanTake(p, r) == pipe[p][r].buf # <<>> \/ pipe[p][r].st # "open"
Taken(p, r) ==
  IF pipe[p][r].buf # <<>>
    THEN [kind |-> "value", req |-> Head(pipe[p][r].buf).req,
          seq |-> Head(pipe[p][r].buf).seq]
    ELSE [kind |-> pipe[p][r].st, req |-> 0, seq |-> 0]
AfterTake(p, r) ==
  IF pipe[p][r].buf # <<>>
    THEN [pipe EXCEPT ![p][r].buf = Tail(@)]
    ELSE pipe

\* v, err := req.Stream.Next(ctx); return
AsyncNext(p, c) ==
  /\ Alive(p)
  /\ pcC[p][c] = "wait"
  /\ CanTake(p, CallReq(c))
  /\ got' = [got EXCEPT ![p][c] = Taken(p, CallReq(c))]
  /\ pipe' = AfterTake(p, CallReq(c))
  /\ pcC' = [pcC EXCEPT ![p][c] = "done"]
  /\ UNCHANGED <<highest, reqs, rLock, terminated, tLock, closing, conn, wire,
                 cid, pcS, rd, cur, curReq, serveErr, nread, pcH, calls, pcT,
                 fault>>

\* --------------------------------------------------------------- rpc.Serve
\* Serve returns err; the packet it was handling is dropped
Return(p, err) ==
  /\ pcS' = [pcS EXCEPT ![p] = "returned"]
  /\ serveErr' = [serveErr EXCEPT ![p] = err]
  /\ cur' = [cur EXCEPT ![p] = NoPkt]
  /\ curReq' = [curReq EXCEPT ![p] = NoReq]

\* continue: the next iteration of the loop
Continue(p) ==
  /\ pcS' = [pcS EXCEPT ![p] = "read"]
  /\ cur' = [cur EXCEPT ![p] = NoPkt]
  /\ curReq' = [curReq EXCEPT ![p] = NoReq]
  /\ UNCHANGED serveErr

\* vpkt, err = r.pkr.Next(ctx): the read gives packet pkt, end-of-file or
\* another error; a read on a connection closed at this end gives an error
Reads(p) == IF conn[p] = "closed" THEN {"err"} ELSE {"pkt", "eof", "err"}

ServeNext(p, read, pkt) ==
  /\ Alive(p)
  /\ pcS[p] = "read"
  /\ read \in Reads(p)
  /\ rd' = [rd EXCEPT ![p] = NextResult(p, read)]
  /\ cur' = [cur EXCEPT ![p] =
               IF read = "pkt" THEN [pkt EXCEPT !.req = Flip(pkt.req)] ELSE NoPkt]
  /\ nread' = [nread EXCEPT ![p] = IF read = "pkt" THEN @ + 1 ELSE @]
  /\ pcS' = [pcS EXCEPT ![p] = "doret"]
  /\ UNCHANGED <<highest, reqs, rLock, terminated, tLock, closing, conn,
                 pipe, pcC, cid, got, curReq, serveErr, pcH, calls, pcT, fault>>

\* the read is decided by an arbitrary remote
ServeNextEnv(p) ==
  \/ /\ nread[p] < MaxPkts
     /\ \E pkt \in EnvPackets : ServeNext(p, "pkt", pkt)
     /\ UNCHANGED wire
  \/ /\ \E read \in {"eof", "err"} : ServeNext(p, read, NoPkt)
     /\ UNCHANGED wire

\* the read is decided by a remote that streams values to the calls of
\* FlowCallers and ends them
FlowCallers == 1..(MaxCallers - 1)
FlowPackets ==
  {Packet(f, 0 - c, BodyValue) : f \in {{"JSON"}}, c \in FlowCallers}
    \cup {Packet({"JSON", "EndErr"}, 0 - c, BodyTrue) : c \in FlowCallers}

ServeNextFlow(p) ==
  /\ nread[p] < bufSize + MaxPkts
  /\ \E pkt \in FlowPackets : ServeNext(p, "pkt", pkt)
  /\ UNCHANGED wire

\* the read ends with end-of-file or fails
ServeNextFail(p) ==
  /\ \E read \in {"eof", "err"} : ServeNext(p, read, NoPkt)
  /\ UNCHANGED wire

\* the read fails because this end of the connection is closed
ServeNextClosed(p) ==
  /\ conn[p] = "closed"
  /\ ServeNext(p, "err", NoPkt)
  /\ UNCHANGED wire

\* the read takes the oldest packet the other peer wrote
ServeNextWire(p) ==
  /\ wire[p] # <<>>
  /\ ServeNext(p, "pkt", Head(wire[p]))
  /\ wire' = [wire EXCEPT ![p] = Tail(@)]

\* (a doRet that reports a read error whether or not the session terminated)
DoRetNoTerm(p) ==
  IF rd[p] = "eos" THEN Nil
  ELSE IF rd[p] = "err"
    THEN Err("error reading from packer source", "ReadPacket failed.")
  ELSE Running
\* what Serve's doRet closure decides, under tLock: return nil, return the
\* read error, or (Running) go on with the packet
DoRet(p) ==
  IF rd[p] = "eos" THEN Nil
  ELSE IF rd[p] = "err"
    THEN (IF terminated[p] THEN Nil
          ELSE Err("error reading from packer source", "ReadPacket failed."))
  ELSE Running

ServeDoRet(p) ==
  /\ Alive(p)
  /\ pcS[p] = "doret"
  /\ tLock[p] = NoTask
  /\ IF DoRet(p) = Running
       THEN /\ pcS' = [pcS EXCEPT ![p] =
                         IF "EndErr" \in cur[p].flag THEN "lookup" ELSE "fetch"]
            /\ UNCHANGED <<serveErr, cur, curReq>>
       ELSE Return(p, DoRet(p))
  /\ rd' = [rd EXCEPT ![p] = "none"]
  /\ UNCHANGED <<highest, reqs, rLock, terminated, tLock, closing, conn, wire,
                 pipe, pcC, cid, got, nread, pcH, calls, pcT, fault>>

\* req, ok := r.reqs[id]
Has(p, id) == id \in DOMAIN reqs[p]
\* (a lookup that ignores the key and returns the latest local request)
LookupLatest(p, id) ==
  IF Has(p, id) THEN reqs[p][CHOOSE k \in DOMAIN reqs[p] :
                               \A j \in DOMAIN reqs[p] : j <= k]
  ELSE NoReq
Lookup(p, id) == IF Has(p, id) THEN reqs[p][id] ELSE NoReq

\* if req, ok := r.reqs[pkt.Req]; ok { .. }: read without the table lock.
\* Not ok: control leaves the if and reaches fetchRequest.
ServeLookup(p) ==
  /\ Alive(p)
  /\ pcS[p] = "lookup"
  /\ curReq' = [curReq EXCEPT ![p] = Lookup(p, cur[p].req)]
  /\ pcS' = [pcS EXCEPT ![p] = IF Has(p, cur[p].req) THEN "close" ELSE "fetch"]
  /\ UNCHANGED <<highest, reqs, rLock, terminated, tLock, closing, conn, wire,
                 pipe, pcC, cid, got, rd, cur, serveErr, nread, pcH, calls, pcT,
                 fault>>

\* The locked closure of the termination branch: what it returns.  sok: the
\* Stream's Close succeeded.  Closing a pipe that is closed already fails.
EndResult(p, sok) ==
  IF isTrue(cur[p].body)
    THEN (IF pipe[p][curReq[p]].st # "open"
            THEN Err("error closing pipe sink", "closed")
          ELSE IF ~sok THEN Err("error closing stream", "Close")
          ELSE Nil)
  ELSE IF parseError(cur[p].body) # "ok"
    THEN Err("error parsing error packet", parseError(cur[p].body))
  ELSE IF pipe[p][curReq[p]].st # "open"
    THEN Err("error closing pipe sink with error", "closed")
  ELSE Nil

\* the pipe and Stream of the request after that closure
EndPipe(p, sok) ==
  LET q == pipe[p][curReq[p]] IN
  IF isTrue(cur[p].body)
    THEN (IF q.st # "open" THEN q
          ELSE [q EXCEPT !.st = "eos", !.sclosed = sok])
  ELSE IF parseError(cur[p].body) = "ok" /\ q.st = "open"
    THEN [q EXCEPT !.st = "err"]
  ELSE q

\* (a termination branch that leaves the entry in the table)
EndTableKeep(p, sok) == reqs[p]
\* delete(r.reqs, pkt.Req), reached only when nothing failed
EndTable(p, sok) ==
  IF EndResult(p, sok) = Nil THEN Remove(reqs[p], cur[p].req) ELSE reqs[p]

ServeEndClose(p, sok) ==
  /\ Alive(p)
  /\ pcS[p] = "close"
  /\ rLock[p] = NoTask
  /\ pipe' = [pipe EXCEPT ![p][curReq[p]] = EndPipe(p, sok)]
  /\ reqs' = [reqs EXCEPT ![p] = EndTable(p, sok)]
  /\ IF EndResult(p, sok) = Nil
       THEN Continue(p)
       ELSE Return(p, EndResult(p, sok))
  /\ UNCHANGED <<highest, rLock, terminated, tLock, closing, conn, wire, pcC,
                 cid, got, rd, nread, pcH, calls, pcT, fault>>

\* fetchRequest, under the table lock: "old", "new", or ParseRequest's error
FetchResult(p) ==
  IF Has(p, cur[p].req) THEN "old"
  ELSE IF ParseRequest(cur[p]) = "ok" THEN "new"
  ELSE ParseRequest(cur[p])

\* r.reqs[pkt.Req] = req, for a request ParseRequest accepted
FetchTable(p) ==
  IF FetchResult(p) = "new"
    THEN (cur[p].req :> InReq(nread[p])) @@ reqs[p]
    ELSE reqs[p]

\* go r.root.HandleCall(ctx, req)
FetchCalls(p) ==
  IF FetchResult(p) = "new"
    THEN Append(calls[p], <<cur[p].req, InReq(nread[p])>>)
    ELSE calls[p]

\* (a Serve that skips a packet fetchRequest rejected)
AfterFetchSkip(p) ==
  CASE Has(p, cur[p].req) ->
         /\ pcS' = [pcS EXCEPT ![p] = "deliver"]
         /\ curReq' = [curReq EXCEPT ![p] = Lookup(p, cur[p].req)]
         /\ UNCHANGED <<serveErr, cur>>
    [] OTHER -> Continue(p)
\* what Serve does with fetchRequest's result
AfterFetch(p) ==
  CASE FetchResult(p) = "old" ->
         /\ pcS' = [pcS EXCEPT ![p] = "deliver"]
         /\ curReq' = [curReq EXCEPT ![p] = Lookup(p, cur[p].req)]
         /\ UNCHANGED <<serveErr, cur>>
    [] FetchResult(p) = "new" -> Continue(p)
    [] OTHER -> Return(p, Err("error getting request", FetchResult(p)))

ServeFetch(p) ==
  /\ Alive(p)
  /\ pcS[p] = "fetch"
  /\ rLock[p] = NoTask
  /\ reqs' = [reqs EXCEPT ![p] = FetchTable(p)]
  /\ calls' = [calls EXCEPT ![p] = FetchCalls(p)]
  /\ IF FetchResult(p) = "new"
       THEN /\ pipe' = [pipe EXCEPT ![p] =
                          (InReq(nread[p]) :> NewPipe(cur[p].req)) @@ @]
            /\ pcH' = [pcH EXCEPT ![p] = (InReq(nread[p]) :> "run") @@ @]
       ELSE UNCHANGED <<pipe, pcH>>
  /\ AfterFetch(p)
  /\ UNCHANGED <<highest, rLock, terminated, tLock, closing, conn, wire, pcC,
                 cid, got, rd, nread, pcT, fault>>

\* (a delivery that does not give up on a full pipe)
DeliverResultNoLimit(p) ==
  IF pipe[p][curReq[p]].st # "open"
    THEN Err("error pouring data to handler", "closed")
  ELSE Nil
\* req.in.Pour(ctx, pkt) under rxTimeout: the packet enters the pipe if there
\* is room; a full pipe that nobody takes from in time is a timeout
DeliverResult(p) ==
  IF pipe[p][curReq[p]].st # "open"
    THEN Err("error pouring data to handler", "closed")
  ELSE IF Len(pipe[p][curReq[p]].buf) >= bufSize
    THEN Err("error pouring data to handler", "timeout")
  ELSE Nil

\* (a pipe that hands out the newest packet first)
DeliveredFront(p) == <<Item(cur[p], nread[p])>> \o pipe[p][curReq[p]].buf
\* the pipe's buffer once the packet is in it: behind the earlier ones
Delivered(p) == Append(pipe[p][curReq[p]].buf, Item(cur[p], nread[p]))

ServeDeliver(p) ==
  /\ Alive(p)
  /\ pcS[p] = "deliver"
  /\ IF DeliverResult(p) = Nil
       THEN /\ pipe' = [pipe EXCEPT ![p][curReq[p]].buf = Delivered(p)]
            /\ Continue(p)
       ELSE /\ Return(p, DeliverResult(p))
            /\ UNCHANGED pipe
  /\ UNCHANGED <<highest, reqs, rLock, terminated, tLock, closing, conn, wire,
                 pcC, cid, got, rd, nread, pcH, calls, pcT, fault>>

\* ------------------------------------------------------------ handler tasks
Handlers(p) == DOMAIN pcH[p]

\* the HandleCall task takes the next packet of its request's Stream
HandlerTake(p, h) ==
  /\ Alive(p)
  /\ pcH[p][h] = "run"
  /\ pipe[p][h].buf # <<>>
  /\ pipe' = AfterTake(p, h)
  /\ UNCHANGED <<highest, reqs, rLock, terminated, tLock, closing, conn, wire,
                 pcC, cid, got, pcS, rd, cur, curReq, serveErr, nread, pcH,
                 calls, pcT, fault>>

\* the HandleCall task pours one reply into its request's Stream, which
\* writes it to the transport under the Stream's id
ReplyPacket(r) == Packet({"JSON"}, r, BodyValue)

HandlerReply(p, h, ok) ==
  /\ Alive(p)
  /\ pcH[p][h] = "run"
  /\ ok \in WriteOutcomes(p)
  /\ wire' = Written(p, ReplyPacket(pipe[p][h].sreq), ok)
  /\ pcH' = [pcH EXCEPT ![p][h] = "replied"]
  /\ UNCHANGED <<highest, reqs, rLock, terminated, tLock, closing, conn, pipe,
                 pcC, cid, got, pcS, rd, cur, curReq, serveErr, nread, calls,
                 pcT, fault>>

\* the exchange is complete: the task enters finish(ctx, req)
HandlerFinish(p, h) ==
  /\ Alive(p)
  /\ pcH[p][h] \in {"run", "replied"}
  /\ pcH' = [pcH EXCEPT ![p][h] = "del"]
  /\ UNCHANGED <<highest, reqs, rLock, terminated, tLock, closing, conn, wire,
                 pipe, pcC, cid, got, pcS, rd, cur, curReq, serveErr, nread,
                 calls, pcT, fault>>

\* delete(r.reqs, req): no lock is taken
FinishTable(p, id) == Remove(reqs[p], id)

FinishDelete(p, h) ==
  /\ Alive(p)
  /\ pcH[p][h] = "del"
  /\ reqs' = [reqs EXCEPT ![p] = FinishTable(p, pipe[p][h].sreq)]
  /\ pcH' = [pcH EXCEPT ![p][h] = "pour"]
  /\ UNCHANGED <<highest, rLock, terminated, tLock, closing, conn, wire, pipe,
                 pcC, cid, got, pcS, rd, cur, curReq, serveErr, nread, calls,
                 pcT, fault>>

\* r.pkr.Pour(ctx, newEndOkayPacket(req))
FinishPour(p, h, ok) ==
  /\ Alive(p)
  /\ pcH[p][h] = "pour"
  /\ ok \in WriteOutcomes(p)
  /\ wire' = Written(p, newEndOkayPacket(pipe[p][h].sreq), ok)
  /\ pcH' = [pcH EXCEPT ![p][h] = "done"]
  /\ UNCHANGED <<highest, reqs, rLock, terminated, tLock, closing, conn, pipe,
                 pcC, cid, got, pcS, rd, cur, curReq, serveErr, nread, calls,
                 pcT, fault>>

\* ----------------------------------------------- rpc.Terminate, packer.Close
TermTask(t) == <<"term", t>>

\* r.tLock.Lock(); r.terminated = true
TermLock(p, t) ==
  /\ Alive(p)
  /\ pcT[p][t] = "idle"
  /\ tLock[p] = NoTask
  /\ tLock' = [tLock EXCEPT ![p] = TermTask(t)]
  /\ terminated' = [terminated EXCEPT ![p] = TRUE]
  /\ pcT' = [pcT EXCEPT ![p][t] = "flag"]
  /\ UNCHANGED <<highest, reqs, rLock, closing, conn, wire, pipe, pcC, cid,
                 got, pcS, rd, cur, curReq, serveErr, nread, pcH, calls, fault>>

\* close(pkr.closing): closing a closed channel panics
PkrCloseFlag(p, t) ==
  /\ Alive(p)
  /\ pcT[p][t] = "flag"
  /\ IF closing[p]
       THEN /\ fault' = [fault EXCEPT ![p] = TRUE]
            /\ UNCHANGED <<closing, pcT>>
       ELSE /\ closing' = [closing EXCEPT ![p] = TRUE]
            /\ pcT' = [pcT EXCEPT ![p][t] = "conn"]
            /\ UNCHANGED fault
  /\ UNCHANGED <<highest, reqs, rLock, terminated, tLock, conn, wire, pipe,
                 pcC, cid, got, pcS, rd, cur, curReq, serveErr, nread, pcH,
                 calls>>

\* return pkr.c.Close(); Terminate's deferred unlock
PkrCloseConn(p, t) ==
  /\ Alive(p)
  /\ pcT[p][t] = "conn"
  /\ conn' = [conn EXCEPT ![p] = "closed"]
  /\ tLock' = [tLock EXCEPT ![p] = NoTask]
  /\ pcT' = [pcT EXCEPT ![p][t] = "done"]
  /\ UNCHANGED <<highest, reqs, rLock, terminated, closing, wire, pipe, pcC,
                 cid, got, pcS, rd, cur, curReq, serveErr, nread, pcH, calls,
                 fault>>

\* --------------------------------------------------- unsynchronised access
\* tasks that are inside a write of r.reqs, and whether Serve is inside its
\* unlocked read of it
Writers(p) ==
  {CallReq(c) : c \in {d \in Callers : pcC[p][d] = "locked"}}
    \cup {h \in Handlers(p) : pcH[p][h] = "del"}
Reading(p) == pcS[p] = "lookup"

\* two tasks are inside r.reqs at once and one of them writes
Race(p) == Cardinality(Writers(p)) >= 2 \/ (Writers(p) # {} /\ Reading(p))

\* the Go runtime detects the concurrent map access and kills the process
MapFault(p) ==
  /\ Alive(p)
  /\ Race(p)
  /\ fault' = [fault EXCEPT ![p] = TRUE]
  /\ UNCHANGED <<highest, reqs, rLock, terminated, tLock, closing, conn, wire,
                 pipe, pcC, cid, got, pcS, rd, cur, curReq, serveErr, nread,
                 pcH, calls, pcT>>

\* ----------------------------------------------------------- specification
\* one session against an arbitrary remote
Next ==
  \/ \E c \in Callers : AsyncCall(Local, c)
  \/ \E c \in Callers, enc \in BOOLEAN : DoRegister(Local, c, enc)
  \/ \E c \in Callers, ok \in BOOLEAN : DoPour(Local, c, ok)
  \/ \E c \in Callers : AsyncNext(Local, c)
  \/ ServeNextEnv(Local)
  \/ ServeDoRet(Local)
  \/ ServeLookup(Local)
  \/ \E sok \in BOOLEAN : ServeEndClose(Local, sok)
  \/ ServeFetch(Local)
  \/ ServeDeliver(Local)
  \/ \E h \in Handlers(Local) : HandlerTake(Local, h)
  \/ \E h \in Handlers(Local) : HandlerFinish(Local, h)
  \/ \E h \in Handlers(Local) : FinishDelete(Local, h)
  \/ \E h \in Handlers(Local), ok \in BOOLEAN : FinishPour(Local, h, ok)
  \/ MapFault(Local)

Spec == Init /\ [][Next]_vars

\* one session whose remote streams values into its calls
NextFlow ==
  \/ \E c \in FlowCallers : AsyncCall(Local, c)
  \/ \E c \in FlowCallers : DoRegister(Local, c, TRUE)
  \/ \E c \in FlowCallers : DoPour(Local, c, TRUE)
  \/ \E c \in FlowCallers : AsyncNext(Local, c)
  \/ ServeNextFlow(Local)
  \/ ServeDoRet(Local)
  \/ ServeLookup(Local)
  \/ ServeEndClose(Local, TRUE)
  \/ ServeFetch(Local)
  \/ ServeDeliver(Local)

SpecFlow == Init /\ [][NextFlow]_vars

\* one session against an arbitrary remote, with a task that calls Terminate
TermCallers == 1..(MaxCallers - 1)
TermOnce == {t \in Terminators : t = 1}

NextTerm ==
  \/ \E c \in TermCallers : AsyncCall(Local, c)
  \/ \E c \in TermCallers, enc \in BOOLEAN : DoRegister(Local, c, enc)
  \/ \E c \in TermCallers, ok \in BOOLEAN : DoPour(Local, c, ok)
  \/ \E c \in TermCallers : AsyncNext(Local, c)
  \/ ServeNextEnv(Local)
  \/ ServeDoRet(Local)
  \/ ServeLookup(Local)
  \/ \E sok \in BOOLEAN : ServeEndClose(Local, sok)
  \/ ServeFetch(Local)
  \/ ServeDeliver(Local)
  \/ \E t \in TermOnce : TermLock(Local, t)
  \/ \E t \in TermOnce : PkrCloseFlag(Local, t)
  \/ \E t \in TermOnce : PkrCloseConn(Local, t)
  \/ MapFault(Local)

\* A read on a closed connection returns, a task that can take tLock does,
\* and Terminate runs to its end.
SpecTerm ==
  /\ Init
  /\ [][NextTerm]_vars
  /\ WF_vars(ServeNextClosed(Local))
  /\ WF_vars(ServeDoRet(Local))
  /\ WF_vars(\E t \in TermOnce : PkrCloseFlag(Local, t))
  /\ WF_vars(\E t \in TermOnce : PkrCloseConn(Local, t))

\* one session whose remote streams values into its calls, whose reads may
\* fail, and with a task that calls Terminate: every way out of Serve
NextExit ==
  \/ \E c \in FlowCallers : AsyncCall(Local, c)
  \/ \E c \in FlowCallers : DoRegister(Local, c, TRUE)
  \/ \E c \in FlowCallers : DoPour(Local, c, TRUE)
  \/ \E c \in FlowCallers : AsyncNext(Local, c)
  \/ ServeNextFlow(Local)
  \/ ServeNextFail(Local)
  \/ ServeDoRet(Local)
  \/ ServeLookup(Local)
  \/ \E sok \in BOOLEAN : ServeEndClose(Local, sok)
  \/ ServeFetch(Local)
  \/ ServeDeliver(Local)
  \/ \E t \in TermOnce : TermLock(Local, t)
  \/ \E t \in TermOnce : PkrCloseFlag(Local, t)
  \/ \E t \in TermOnce : PkrCloseConn(Local, t)
  \/ MapFault(Local)

SpecExit == Init /\ [][NextExit]_vars

\* one session against an arbitrary remote, with two tasks that call
\* Terminate
NextClose ==
  \/ \E c \in TermCallers : AsyncCall(Local, c)
  \/ \E c \in TermCallers, enc \in BOOLEAN : DoRegister(Local, c, enc)
  \/ \E c \in TermCallers, ok \in BOOLEAN : DoPour(Local, c, ok)
  \/ \E c \in TermCallers : AsyncNext(Local, c)
  \/ ServeNextEnv(Local)
  \/ ServeDoRet(Local)
  \/ ServeLookup(Local)
  \/ \E sok \in BOOLEAN : ServeEndClose(Local, sok)
  \/ ServeFetch(Local)
  \/ ServeDeliver(Local)
  \/ \E t \in Terminators : TermLock(Local, t)
  \/ \E t \in Terminators : PkrCloseFlag(Local, t)
  \/ \E t \in Terminators : PkrCloseConn(Local, t)
  \/ MapFault(Local)

SpecClose == Init /\ [][NextClose]_vars

\* one session against an arbitrary remote, late in its life: the counter
\* is one below the largest int32 and the calls made so far have ended
InitWrap ==
  /\ highest = [p \in Peers |-> MaxInt32 - 1]
  /\ reqs = [p \in Peers |-> <<>>]
  /\ rLock = [p \in Peers |-> NoTask]
  /\ terminated = [p \in Peers |-> FALSE]
  /\ tLock = [p \in Peers |-> NoTask]
  /\ closing = [p \in Peers |-> FALSE]
  /\ conn = [p \in Peers |-> "open"]
  /\ wire = [p \in Peers |-> <<>>]
  /\ pipe = [p \in Peers |-> <<>>]
  /\ pcC = [p \in Peers |-> [c \in Callers |-> "idle"]]
  /\ cid = [p \in Peers |-> [c \in Callers |-> 0]]
  /\ got = [p \in Peers |-> [c \in Callers |-> NoItem]]
  /\ pcS = [p \in Peers |-> "read"]
  /\ rd = [p \in Peers |-> "none"]
  /\ cur = [p \in Peers |-> NoPkt]
  /\ curReq = [p \in Peers |-> NoReq]
  /\ serveErr = [p \in Peers |-> Running]
  /\ nread = [p \in Peers |-> 0]
  /\ pcH = [p \in Peers |-> <<>>]
  /\ calls = [p \in Peers |-> <<>>]
  /\ pcT = [p \in Peers |-> [t \in Terminators |-> "idle"]]
  /\ fault = [p \in Peers |-> FALSE]

\* the remote tags its packets with the negation of the ids allocated around
\* the wrap-around, or with a call number of its own
WrapWireIds == {Flip(NextId(MaxInt32 - 1)), Flip(NextId(MaxInt32))} \cup RemoteCalls
WrapPackets == {Packet(s.flag, i, s.body) : s \in EnvShapes, i \in WrapWireIds}

ServeNextWrap(p) ==
  \/ /\ nread[p] < MaxPkts
     /\ \E pkt \in WrapPackets : ServeNext(p, "pkt", pkt)
     /\ UNCHANGED wire
  \/ /\ \E read \in {"eof", "err"} : ServeNext(p, read, NoPkt)
     /\ UNCHANGED wire

NextWrap ==
  \/ \E c \in Callers : AsyncCall(Local, c)
  \/ \E c \in Callers, enc \in BOOLEAN : DoRegister(Local, c, enc)
  \/ \E c \in Callers, ok \in BOOLEAN : DoPour(Local, c, ok)
  \/ \E c \in Callers : AsyncNext(Local, c)
  \/ ServeNextWrap(Local)
  \/ ServeDoRet(Local)
  \/ ServeLookup(Local)
  \/ \E sok \in BOOLEAN : ServeEndClose(Local, sok)
  \/ ServeFetch(Local)
  \/ ServeDeliver(Local)
  \/ \E h \in Handlers(Local) : HandlerTake(Local, h)
  \/ \E h \in Handlers(Local) : HandlerFinish(Local, h)
  \/ \E h \in Handlers(Local) : FinishDelete(Local, h)
  \/ \E h \in Handlers(Local), ok \in BOOLEAN : FinishPour(Local, h, ok)
  \/ MapFault(Local)

SpecWrap == InitWrap /\ [][NextWrap]_vars

\* two sessions, one at each end of the connection; at each peer the callers
\* PairCallers(p) issue a call, and every HandleCall task replies and finishes
PairCallers(p) == IF p = Local THEN 1..(MaxCallers - 1) ELSE {1}

NextPair ==
  \/ \E p \in Peers : \E c \in PairCallers(p) : AsyncCall(p, c)
  \/ \E p \in Peers : \E c \in PairCallers(p) : DoRegister(p, c, TRUE)
  \/ \E p \in Peers : \E c \in PairCallers(p) : DoPour(p, c, TRUE)
  \/ \E p \in Peers : \E c \in PairCallers(p) : AsyncNext(p, c)
  \/ \E p \in Peers : ServeNextWire(p)
  \/ \E p \in Peers : ServeDoRet(p)
  \/ \E p \in Peers : ServeLookup(p)
  \/ \E p \in Peers : ServeEndClose(p, TRUE)
  \/ \E p \in Peers : ServeFetch(p)
  \/ \E p \in Peers : ServeDeliver(p)
  \/ \E p \in Peers : \E h \in Handlers(p) : HandlerReply(p, h, TRUE)
  \/ \E p \in Peers : \E h \in Handlers(p) : HandlerFinish(p, h)
  \/ \E p \in Peers : \E h \in Handlers(p) : FinishDelete(p, h)
  \/ \E p \in Peers : \E h \in Handlers(p) : FinishPour(p, h, TRUE)
  \/ \E p \in Peers : MapFault(p)

SpecPair == Init /\ [][NextPair]_vars

\* ------------------------------------------------------------------ claims
Registered(p) == {c \in Callers : cid[p][c] # 0}

\* C1: every packet in the pipe of an Async caller's request, and the value
\* the caller is handed, carries the id that Do registered that request
\* under: no caller sees the response to another call.
C1_OwnResponse ==
  \A c \in Callers :
    /\ CallReq(c) \in DOMAIN pipe[Local] =>
         \A i \in 1..Len(pipe[Local][CallReq(c)].buf) :
           /\ cid[Local][c] # 0
           /\ pipe[Local][CallReq(c)].buf[i].req = cid[Local][c]
    /\ got[Local][c].kind = "value" => got[Local][c].req = cid[Local][c]

\* two concurrent callers were each handed a response
C1_Witness ==
  /\ \A c \in Callers : got[Local][c].kind = "value"
  /\ \E c, d \in Callers : cid[Local][c] # cid[Local][d]

\* C2: a step that allocates an id takes highest+1, above every id handed
\* out before, and inserts the request under it in the same step, while
\* holding the table lock; the ids handed out are distinct and are exactly
\* 1..highest, whether or not their entries are still in the table.
C2_Step ==
  /\ \A c, d \in Callers :
       (c # d /\ cid[Local][c] # 0 /\ cid[Local][d] # 0)
          => cid[Local][c] # cid[Local][d]
  /\ {cid[Local][c] : c \in Registered(Local)} = 1..highest[Local]
  /\ \A c \in Callers :
       (cid[Local][c] = 0 /\ cid'[Local][c] # 0) =>
          /\ rLock[Local] = CallReq(c)
          /\ cid'[Local][c] = highest[Local] + 1
          /\ highest'[Local] = cid'[Local][c]
          /\ \A d \in Registered(Local) : cid[Local][d] < cid'[Local][c]
          /\ cid'[Local][c] \in DOMAIN reqs'[Local]
          /\ reqs'[Local][cid'[Local][c]] = CallReq(c)
          /\ \A k \in DOMAIN reqs[Local] :
               k \in DOMAIN reqs'[Local] /\ reqs'[Local][k] = reqs[Local][k]

C2_DistinctIncreasing == [][C2_Step]_vars

\* an id was allocated after the entry of an earlier one had been removed
C2_Witness ==
  \E c, d \in Callers :
    /\ cid[Local][c] # 0 /\ ~Has(Local, cid[Local][c])
    /\ cid[Local][d] > cid[Local][c]
    /\ Has(Local, cid[Local][d])

\* C3: at both peers of a connected pair, requests of locally initiated
\* calls are keyed by positive ids and requests of remotely initiated calls
\* by negative ids; what reaches the pipe of a local call, and what its
\* caller is handed, carries that call's own positive id; what reaches the
\* pipe of a remote call's request carries that request's negative id; and
\* no session rejects a packet of the other for the sign of its id.
C3_Namespaces ==
  \A p \in Peers :
    /\ \A k \in DOMAIN reqs[p] :
         /\ reqs[p][k][1] = "call" => k > 0
         /\ reqs[p][k][1] = "in" => k < 0
         /\ pipe[p][reqs[p][k]].sreq = k
    /\ \A r \in DOMAIN pipe[p] :
         \A i \in 1..Len(pipe[p][r].buf) :
           /\ pipe[p][r].buf[i].req = pipe[p][r].sreq
           /\ r[1] = "call" => pipe[p][r].buf[i].req > 0
           /\ r[1] = "in" => pipe[p][r].buf[i].req < 0
    /\ \A c \in Callers :
         got[p][c].kind = "value" =>
           got[p][c].req = cid[p][c] /\ cid[p][c] > 0
    /\ serveErr[p].msg # "error getting request"

\* peer 1 was handed the answer to its call 1 while it also served the other
\* peer's call 1 under the key -1
C3_Witness ==
  /\ cid[1][1] = 1
  /\ got[1][1].kind = "value"
  /\ \E h \in Handlers(1) : pipe[1][h].sreq = 0 - 1
  /\ cid[2][1] = 1
  /\ got[2][1].kind = "value"

\* the step that ends Serve's handling at position pos
Leaves(pos) == pcS[Local] = pos /\ pcS'[Local] # pos
Kept == pcS'[Local] = "read" /\ serveErr'[Local] = Running

\* C4: when Serve handles a termination packet whose id it found in the
\* table, then unless closing the pipe or the Stream reports a failure (and
\* Serve returns it): a body `true` leaves the request's pipe closed with
\* end-of-stream and its Stream closed, a well-formed CallError leaves the
\* pipe closed with the error; in both cases the id is no longer in the table
\* and Serve is back at reading the next packet, not returned.
C4_Step ==
  Leaves("close") =>
    LET r == curReq[Local]
        b == cur[Local].body
        gone == ~(cur[Local].req \in DOMAIN reqs'[Local])
    IN /\ isTrue(b) =>
            \/ /\ pipe'[Local][r].st = "eos"
               /\ pipe'[Local][r].sclosed
               /\ gone /\ Kept
            \/ /\ pcS'[Local] = "returned"
               /\ serveErr'[Local].msg \in
                    {"error closing pipe sink", "error closing stream"}
       /\ (~isTrue(b) /\ parseError(b) = "ok") =>
            \/ /\ pipe'[Local][r].st = "err"
               /\ gone /\ Kept
            \/ /\ pcS'[Local] = "returned"
               /\ serveErr'[Local].msg = "error closing pipe sink with error"

C5_Step ==
  (Leaves("fetch") /\ "EndErr" \in cur[Local].flag /\ ~Has(Local, cur[Local].req))
    => /\ reqs'[Local] = reqs[Local]
       /\ pipe'[Local] = pipe[Local]
       /\ calls'[Local] = calls[Local]
       /\ Kept

C5_Ignored == [][C5_Step]_vars

\* C8: for a packet whose id is not in the table, a missing JSON flag or an
\* id >= 0 makes request parsing fail, and then the table, the pipes and
\* the HandleCall tasks are as they were before the packet.
C8_Step ==
  (Leaves("fetch") /\ ~Has(Local, cur[Local].req)
     /\ ("JSON" \notin cur[Local].flag \/ cur[Local].req >= 0))
    => /\ serveErr'[Local].msg = "error getting request"
       /\ serveErr'[Local].cause \in
            {"expected JSON flag", "expected negative request id"}
       /\ reqs'[Local] = reqs[Local]
       /\ pipe'[Local] = pipe[Local]
       /\ pcH'[Local] = pcH[Local]
       /\ calls'[Local] = calls[Local]

C8_Rejected == [][C8_Step]_vars

\* a packet without the JSON flag was rejected
C8_Witness ==
  /\ serveErr[Local] = Err("error getting request", "expected JSON flag")
  /\ pcS[Local] = "returned"

\* C9 as stated: Serve does not return because of a protocol violation on
\* an unseen id.
C9_Original == serveErr[Local].msg # "error getting request"

\* C9, amended: a protocol violation on an unseen id makes Serve return the
\* error "error getting request" without creating a table entry; once Serve
\* has returned it stays returned and puts no further packet into any pipe.
C9_Step ==
  /\ (Leaves("fetch") /\ ~Has(Local, cur[Local].req)
        /\ ParseRequest(cur[Local]) # "ok")
       => /\ pcS'[Local] = "returned"
          /\ serveErr'[Local] =
               Err("error getting request", ParseRequest(cur[Local]))
          /\ reqs'[Local] = reqs[Local]
  /\ pcS[Local] = "returned"
       => /\ pcS'[Local] = "returned"
          /\ serveErr'[Local] = serveErr[Local]
          /\ \A r \in DOMAIN pipe[Local] :
               Len(pipe'[Local][r].buf) <= Len(pipe[Local][r].buf)

C9_Kills == [][C9_Step]_vars

\* Serve returned on an unparsable envelope while a registered call was
\* waiting for its response
C9_Witness ==
  /\ serveErr[Local] = Err("error getting request", "error decoding packet")
  /\ \E c \in Callers : pcC[Local][c] = "wait" /\ Has(Local, cid[Local][c])

\* C10: no two tasks are inside an access of the request table at the same
\* time when one of them mutates it.
C10_Serialized == ~Race(Local)

\* C6: a read that Serve performs once Terminate has closed the connection
\* resolves as end-of-stream, never as a read error; and a Serve that is
\* blocked in its read when the connection is closed eventually returns, and
\* returns nil.
C6_ReadAfterClose ==
  (pcS[Local] = "read" /\ conn[Local] = "closed" /\ pcS'[Local] # "read")
    => rd'[Local] = "eos"

C6_Blocked == pcS[Local] = "read" /\ conn[Local] = "closed"
C6_ReturnedNil == pcS[Local] = "returned" /\ serveErr[Local] = Nil

C6_Terminate ==
  /\ [][C6_ReadAfterClose]_vars
  /\ [](pcS[Local] = "returned" /\ terminated[Local] /\ rd[Local] = "eos"
          => serveErr[Local] = Nil)
  /\ (C6_Blocked ~> C6_ReturnedNil)

\* Terminate ran to its end and Serve returned nil
C6_Witness ==
  /\ terminated[Local] /\ closing[Local] /\ conn[Local] = "closed"
  /\ pcT[Local][1] = "done"
  /\ C6_ReturnedNil

\* C7: a pipe never holds more than bufSize packets; when Serve has a packet
\* for a registered request whose pipe is full and nothing is taken from it,
\* Serve returns the error "error pouring data to handler" and the pipe is
\* as it was; once Serve has returned it handles no further packet.
C7_Step ==
  /\ \A r \in DOMAIN pipe'[Local] : Len(pipe'[Local][r].buf) <= bufSize
  /\ (Leaves("deliver") /\ Len(pipe[Local][curReq[Local]].buf) >= bufSize)
       => /\ pcS'[Local] = "returned"
          /\ serveErr'[Local] = Err("error pouring data to handler", "timeout")
          /\ pipe'[Local] = pipe[Local]
  /\ pcS[Local] = "returned"
       => /\ pcS'[Local] = "returned"
          /\ nread'[Local] = nread[Local]
          /\ \A r \in DOMAIN pipe[Local] :
               Len(pipe'[Local][r].buf) <= Len(pipe[Local][r].buf)

C7_Backpressure == [][C7_Step]_vars

\* Serve gave up on a full pipe
C7_Witness ==
  /\ serveErr[Local] = Err("error pouring data to handler", "timeout")
  /\ \E c \in Callers :
       /\ CallReq(c) \in DOMAIN pipe[Local]
       /\ Len(pipe[Local][CallReq(c)].buf) = bufSize

\* C11: HandleCall is started at most once for an inbound id: no two
\* invocations carry the same id.
C11_Once ==
  \A i, j \in 1..Len(calls[Local]) :
    i # j => calls[Local][i][1] # calls[Local][j][1]

\* C12: Serve takes a packet from the transport only when it is done with
\* the one before; a packet enters a pipe behind all packets that arrived
\* before it, so every pipe holds its packets in arrival order; a data
\* packet for a registered id is placed into the pipe or ends Serve; a
\* termination packet closes a pipe only when all packets in it arrived
\* before the termination packet; and a closed pipe is never reopened and
\* receives no further packet.
C12_Step ==
  /\ nread'[Local] # nread[Local]
       => /\ pcS[Local] = "read" /\ cur[Local] = NoPkt
          /\ nread'[Local] = nread[Local] + 1
  /\ Leaves("deliver")
       => \/ pcS'[Local] = "returned"
          \/ pipe'[Local][curReq[Local]].buf =
               Append(pipe[Local][curReq[Local]].buf,
                      Item(cur[Local], nread[Local]))
  /\ \A r \in DOMAIN pipe'[Local] :
       LET new == pipe'[Local][r].buf IN
       /\ \A i, j \in 1..Len(new) : i < j => new[i].seq < new[j].seq
       /\ r \in DOMAIN pipe[Local] =>
            LET q == pipe[Local][r] IN
            /\ Len(new) > Len(q.buf)
                 => /\ pcS[Local] = "deliver" /\ curReq[Local] = r
                    /\ q.st = "open"
            /\ q.st # "open"
                 => /\ pipe'[Local][r].st = q.st
                    /\ Len(new) <= Len(q.buf)
            /\ (q.st = "open" /\ pipe'[Local][r].st # "open")
                 => /\ pcS[Local] = "close" /\ curReq[Local] = r
                    /\ new = q.buf
                    /\ \A i \in 1..Len(new) : new[i].seq < nread[Local]

C12_Ordered == [][C12_Step]_vars

\* a call's pipe was closed by a termination packet behind two data packets
C12_Witness ==
  \E c \in Callers :
    /\ CallReq(c) \in DOMAIN pipe[Local]
    /\ pipe[Local][CallReq(c)].st = "eos"
    /\ Len(pipe[Local][CallReq(c)].buf) >= 2

\* C13: Serve has no result while it runs.  When it returns, the result is
\* nil exactly when it returns from doRet and the read gave end-of-stream,
\* or gave an error and the termination flag is set when doRet examines it;
\* a read error with the flag unset returns "error reading from packer
\* source"; a return from the termination branch, from fetchRequest or from
\* the delivery returns the error of that step.
C13_Step ==
  /\ pcS'[Local] # "returned" => serveErr'[Local] = Running
  /\ (pcS[Local] # "returned" /\ pcS'[Local] = "returned")
       => /\ serveErr'[Local] # Running
          /\ serveErr'[Local] = Nil
               <=> /\ pcS[Local] = "doret"
                   /\ \/ rd[Local] = "eos"
                      \/ rd[Local] = "err" /\ terminated[Local]
          /\ (pcS[Local] = "doret" /\ rd[Local] = "err" /\ ~terminated[Local])
               => serveErr'[Local].msg = "error reading from packer source"
          /\ pcS[Local] = "close"
               => serveErr'[Local].msg \in
                    {"error closing pipe sink", "error closing stream",
                     "error parsing error packet",
                     "error closing pipe sink with error"}
          /\ pcS[Local] = "fetch"
               => serveErr'[Local].msg = "error getting request"
          /\ pcS[Local] = "deliver"
               => serveErr'[Local].msg = "error pouring data to handler"

C14_Destroyed ==
  pcS[Local] = "returned" =>
    /\ DOMAIN reqs[Local] = {}
    /\ \A c \in Callers :
         pcC[Local][c] = "wait" => pipe[Local][CallReq(c)].st # "open"

\* C15: a Do that fails has its id allocated: the caller is handed the
\* error; when the encoding failed the request was inserted under the new id
\* all the same, when the send failed the table and the counter are left as
\* they are; the counter never goes back and every later Do gets a greater
\* id; and the entry of a failed call leaves the table only through Serve's
\* handling of a termination packet.
C15_Step ==
  /\ highest'[Local] >= highest[Local]
  /\ \A c \in Callers :
       /\ (pcC[Local][c] # "failed" /\ pcC'[Local][c] = "failed")
            => /\ got'[Local][c].kind = "senderr"
               /\ cid'[Local][c] > 0
               /\ highest'[Local] >= cid'[Local][c]
               /\ pcC[Local][c] = "locked"
                    => /\ cid'[Local][c] \in DOMAIN reqs'[Local]
                       /\ reqs'[Local][cid'[Local][c]] = CallReq(c)
               /\ pcC[Local][c] = "pour"
                    => /\ reqs'[Local] = reqs[Local]
                       /\ highest'[Local] = highest[Local]
                       /\ cid'[Local][c] = cid[Local][c]
       /\ pcC[Local][c] = "failed"
            => /\ pcC'[Local][c] = "failed"
               /\ cid'[Local][c] = cid[Local][c]
               /\ \A d \in Callers :
                    (cid[Local][d] = 0 /\ cid'[Local][d] # 0)
                      => cid'[Local][d] > cid[Local][c]
               /\ (Has(Local, cid[Local][c])
                     /\ cid[Local][c] \notin DOMAIN reqs'[Local])
                    => pcS[Local] = "close"

C15_NoRollback == [][C15_Step]_vars

\* a call whose send failed is still in the table, and a later call got the
\* next id
C15_Witness ==
  \E c, d \in Callers :
    /\ pcC[Local][c] = "failed"
    /\ Has(Local, cid[Local][c])
    /\ reqs[Local][cid[Local][c]] = CallReq(c)
    /\ cid[Local][d] = cid[Local][c] + 1
    /\ pcC[Local][d] = "wait"

\* C16: at both peers of a connected pair, when Do hands the call packet to
\* the transport the request is in the table under the packet's id and that
\* id is bound to its Stream; every call packet on the wire carries an id its
\* sender had registered before; and a packet that Serve handles for a local
\* (positive) id is one for a call registered before.
C16_Step ==
  \A p \in Peers :
    /\ \A c \in Callers :
         (pcC[p][c] = "pour" /\ pcC'[p][c] # "pour")
           => /\ Has(p, cid[p][c])
              /\ reqs[p][cid[p][c]] = CallReq(c)
              /\ pipe[p][CallReq(c)].sreq = cid[p][c]
    /\ \A i \in 1..Len(wire'[Other(p)]) :
         LET pkt == wire'[Other(p)][i] IN
         (pkt.body = Envelope("async") /\ "EndErr" \notin pkt.flag)
           => /\ pkt.req > 0 /\ pkt.req <= highest'[p]
              /\ \E c \in Callers :
                   cid'[p][c] = pkt.req /\ pcC'[p][c] \in {"wait", "done"}
    /\ (pcS'[p] \in {"lookup", "close", "fetch", "deliver"} /\ cur'[p].req > 0)
         => /\ cur'[p].req <= highest'[p]
            /\ \E c \in Callers :
                 cid'[p][c] = cur'[p].req /\ pcC'[p][c] \in {"wait", "done"}

C16_RegisteredFirst == [][C16_Step]_vars

\* the response to a call is being delivered to the request registered for it
C16_Witness ==
  /\ pcS[Local] = "deliver"
  /\ cur[Local].req > 0
  /\ curReq[Local] = CallReq(1)
  /\ cid[Local][1] = cur[Local].req

\* C17: with the closing flag set, Pour returns success whether or not the
\* write succeeded and Next returns end-of-stream for every read error; with
\* the flag unset, Pour returns the write error exactly when the write
\* failed, and Next returns end-of-stream for end-of-file only and an error
\* for any other read failure.  The callers of both see exactly that: a Do
\* whose write failed goes on as sent when the flag is set and fails when it
\* is not, and Serve is never handed a read error once the flag is set.
C17_Results ==
  \A ok \in BOOLEAN, read \in {"eof", "err"} :
    IF closing[Local]
      THEN /\ PourResult(Local, ok) = "nil"
           /\ NextResult(Local, read) = "eos"
      ELSE /\ PourResult(Local, ok) = "nil" <=> ok
           /\ NextResult(Local, read) = "eos" <=> read = "eof"
           /\ read = "err" => NextResult(Local, read) = "err"

C17_Step ==
  /\ \A c \in Callers :
       (pcC[Local][c] = "pour" /\ pcC'[Local][c] # "pour")
         => IF closing[Local] \/ wire'[Other(Local)] # wire[Other(Local)]
              THEN pcC'[Local][c] = "wait"
              ELSE pcC'[Local][c] = "failed"
  /\ (pcS[Local] = "read" /\ pcS'[Local] = "doret")
       => /\ closing[Local] => rd'[Local] \in {"eos", "pkt"}
          /\ rd'[Local] = "pkt" <=> nread'[Local] = nread[Local] + 1

C17_Swallowed == []C17_Results /\ [][C17_Step]_vars

\* a Do went on as sent although nothing reached the wire
C17_Witness ==
  /\ closing[Local]
  /\ \E c \in Callers : pcC[Local][c] = "wait"
  /\ wire[Other(Local)] = <<>>

\* C18: when Serve handles a termination packet for an id it found in the
\* table and the body is neither `true` nor an object whose name is exactly
\* "Error", Serve returns the error "error parsing error packet"; that step
\* closes no pipe and removes nothing from the table.
C18_Step ==
  (/\ Leaves("close")
   /\ cur[Local].body.json # "true"
   /\ ~(cur[Local].body.json = "object" /\ cur[Local].body.name = "Error"))
    => /\ pcS'[Local] = "returned"
       /\ serveErr'[Local].msg = "error parsing error packet"
       /\ serveErr'[Local].cause \in {"unmarshal", "name"}
       /\ pipe'[Local] = pipe[Local]
       /\ pipe'[Local][curReq[Local]].st = "open"
       /\ reqs'[Local] = reqs[Local]

C18_Rejects == [][C18_Step]_vars

\* Serve returned on a termination packet named TypeError; the call it was
\* for is still registered and its pipe is open
C18_Witness ==
  /\ serveErr[Local] = Err("error parsing error packet", "name")
  /\ \E c \in Callers :
       /\ pcC[Local][c] = "wait"
       /\ Has(Local, cid[Local][c])
       /\ pipe[Local][CallReq(c)].st = "open"

\* C19: the closing flag, once set, stays set, and a task inside Terminate
\* never faults: a step in which the process dies is taken while two tasks
\* are inside the request table, not by a Close.
C19_Step ==
  /\ closing[Local] => closing'[Local]
  /\ (~fault[Local] /\ fault'[Local]) => Race(Local)

C19_OneShot == [][C19_Step]_vars

\* C20: every id that Do allocates is positive, greater than the counter
\* before the allocation and greater than every id allocated before it.
C20_Step ==
  \A c \in Callers :
    (cid[Local][c] = 0 /\ cid'[Local][c] # 0)
      => /\ cid'[Local][c] > 0
         /\ cid'[Local][c] > highest[Local]
         /\ \A d \in Registered(Local) : cid[Local][d] < cid'[Local][c]

C20_Positive == [][C20_Step]_vars

====
